---- MODULE Spec2Model ----
(***************************************************************************)
(* Model of MicToMorseCode (src/src/mic-to-morse.ts): the timing decoder   *)
(* that turns "level above threshold at time t" samples into dots, dashes, *)
(* character delimiters and word delimiters, and the sentence edit         *)
(* operations.                                                             *)
(*                                                                         *)
(* Times are integers (ticks of the meter's clock).  A sentence is a       *)
(* sequence of one-character strings.  The calls made into the four event  *)
(* slots during one operation are recorded, in order, in `fired`.          *)
(***************************************************************************)
EXTENDS Integers, Sequences, FiniteSets, TLC

VARIABLES
    listenInterval,       \* 0 for null, else the interval the field names
    microphoneSource,     \* 0 for null, else the source the field names
    opening,              \* sources whose open() promise is not settled yet
    intervals,            \* intervals set and not cleared
    live,                 \* sources that are open: their meters hear the microphone
    stopped,              \* stopMicrophone() was called, startMicrophone() not since
    currentAudioState,    \* AudioState
    lastState,            \* ListeningState
    soundStartTime,
    soundStopTime,
    morseSentence,
    threshold,
    audioTimeResolution,
    dotTime,
    dashTime,
    characterTime,
    wordTime,
    debounceTime,
    now,                  \* last value returned by meter.now()
    op,                   \* the operation that produced this state
    fired,                \* the event-slot calls that operation made, in order
    changeArg,            \* first argument of the last on:change call ("" if none)
    toneFirst             \* timestamp of the first presence sample of the tone
                          \* being heard, -1 when the last sample was silence

vars == <<listenInterval, microphoneSource, opening, intervals, live, stopped,
          currentAudioState, lastState, soundStartTime, soundStopTime,
          morseSentence, threshold, audioTimeResolution, dotTime, dashTime,
          characterTime, wordTime, debounceTime, now, op, fired, changeArg,
          toneFirst>>

mic == <<listenInterval, microphoneSource, opening, intervals, live, stopped>>

config == <<threshold, audioTimeResolution, dotTime, dashTime, characterTime,
            wordTime, debounceTime>>

(***************************************************************************)
(* Bounds of the model.                                                    *)
(***************************************************************************)
MaxTime == 10

\* Values the meter reports, and values the constructor is given.
Levels == {-60, -40}
\* What the meter of a closed source reports (-Infinity).
MinusInfinity == -1000
Thresholds == {-50}
Resolutions == {50}
DotTimes == {0, 1}
DashTimes == {2}
CharacterTimes == {2}
WordTimes == {3}
DebounceTimes == {1, 2}

\* The default dotTime, 0.5 s, in ticks of 0.05 s.
DefaultDotTime == 10

characterDelimiter == " "
wordDelimiter == "/"

NoEvents == <<>>

(***************************************************************************)
(* The mutable fields an operation works on, as one record.                *)
(***************************************************************************)
This ==
    [currentAudioState |-> currentAudioState,
     lastState         |-> lastState,
     soundStartTime    |-> soundStartTime,
     soundStopTime     |-> soundStopTime,
     morseSentence     |-> morseSentence,
     fired             |-> NoEvents]

(***************************************************************************)
(* String.prototype.split with a one-character separator: the segments     *)
(* between separators; n separators give n + 1 segments, "" gives <<"">>.  *)
(***************************************************************************)
RECURSIVE split(_, _)
split(str, separator) ==
    IF \A i \in 1..Len(str) : str[i] # separator
    THEN <<str>>
    ELSE LET i == CHOOSE k \in 1..Len(str) :
                     /\ str[k] = separator
                     /\ \A j \in 1..(k - 1) : str[j] # separator
         IN <<SubSeq(str, 1, i - 1)>> \o split(SubSeq(str, i + 1, Len(str)), separator)

Last(seq) == seq[Len(seq)]
Front(seq) == SubSeq(seq, 1, Len(seq) - 1)

call(s, name, args) ==
    [s EXCEPT !.fired = Append(@, [name |-> name, args |-> args])]

emitSentenceChangeEvent(s, current, previous) ==
    call(s, "on:change", <<current, previous>>)

emitAudioStateChangeEvent(s, current, previous) ==
    call(s, "on:audio:state:change", <<current, previous>>)

emitCharacterEndEvent(s) ==
    LET characters == split(s.morseSentence, characterDelimiter)
    IN call(s, "on:character:end", <<characters[Len(characters)]>>)

emitWordEndEvent(s) ==
    LET word == split(s.morseSentence, wordDelimiter)
    IN call(s, "on:word:end", <<word[Len(word)]>>)

changeAudioState(s, state) ==
    LET previous == s.currentAudioState
    IN IF previous = state
       THEN s
       ELSE emitAudioStateChangeEvent([s EXCEPT !.currentAudioState = state],
                                      state, previous)

wasSound(s) == s.lastState = "sound"
wasNoSound(s) == s.lastState = "no-sound"

removeLastLetterFromMorse(s) ==
    [s EXCEPT !.morseSentence = IF Len(@) = 0 THEN @ ELSE Front(@)]

isDelimiter(character) ==
    character = wordDelimiter \/ character = characterDelimiter

\* addCharacter reporting the change before it concatenates.
addCharacter_reportsFirst(s, character) ==
    LET previous == s.morseSentence
        s0 == emitSentenceChangeEvent(s, s.morseSentence, previous)
        s1 == [s0 EXCEPT !.morseSentence = Append(@, character)]
        s2 == IF character = wordDelimiter THEN emitWordEndEvent(s1) ELSE s1
    IN IF character = characterDelimiter THEN emitCharacterEndEvent(s2) ELSE s2

addCharacter(s, character) ==
    LET previous == s.morseSentence
        s1 == [s EXCEPT !.morseSentence = Append(@, character)]
        s2 == IF character = wordDelimiter THEN emitWordEndEvent(s1) ELSE s1
        s3 == IF character = characterDelimiter THEN emitCharacterEndEvent(s2) ELSE s2
    IN emitSentenceChangeEvent(s3, s3.morseSentence, previous)

\* logStartTime appending the dash as soon as the tone is long enough.
logStartTime_appendsDash(s, currentTime) ==
    IF currentTime - s.soundStopTime < debounceTime
    THEN s
    ELSE IF wasSound(s)
    THEN LET onTime == currentTime - s.soundStartTime
         IN IF onTime > dashTime
            THEN addCharacter(changeAudioState(s, "dash:length"), "-")
            ELSE IF onTime > dotTime THEN changeAudioState(s, "dot:length")
            ELSE s
    ELSE [changeAudioState(s, "listening:sound")
             EXCEPT !.lastState = "sound", !.soundStartTime = currentTime]

\* logStartTime testing the debounce against the start of the last tone.
logStartTime_debounceFromStart(s, currentTime) ==
    IF currentTime - s.soundStartTime < debounceTime
    THEN s
    ELSE IF wasSound(s)
    THEN LET onTime == currentTime - s.soundStartTime
         IN IF onTime > dashTime THEN changeAudioState(s, "dash:length")
            ELSE IF onTime > dotTime THEN changeAudioState(s, "dot:length")
            ELSE s
    ELSE [changeAudioState(s, "listening:sound")
             EXCEPT !.lastState = "sound", !.soundStartTime = currentTime]

\* logStartTime without the debounce test.
logStartTime_noDebounce(s, currentTime) ==
    IF wasSound(s)
    THEN LET onTime == currentTime - s.soundStartTime
         IN IF onTime > dashTime THEN changeAudioState(s, "dash:length")
            ELSE IF onTime > dotTime THEN changeAudioState(s, "dot:length")
            ELSE s
    ELSE [changeAudioState(s, "listening:sound")
             EXCEPT !.lastState = "sound", !.soundStartTime = currentTime]

logStartTime(s, currentTime) ==
    IF currentTime - s.soundStopTime < debounceTime
    THEN s
    ELSE IF wasSound(s)
    THEN LET onTime == currentTime - s.soundStartTime
         IN IF onTime > dashTime THEN changeAudioState(s, "dash:length")
            ELSE IF onTime > dotTime THEN changeAudioState(s, "dot:length")
            ELSE s
    ELSE [changeAudioState(s, "listening:sound")
             EXCEPT !.lastState = "sound", !.soundStartTime = currentTime]

\* The last character of the sentence; undefined (here "") for the empty one.
lastCharacterOf(s) ==
    IF Len(s.morseSentence) = 0 THEN "" ELSE Last(s.morseSentence)

\* wordGap without the test for a trailing word delimiter.
wordGap_noWordDelimiterTest(s) ==
    LET lastCharacter == lastCharacterOf(s)
        s1 == changeAudioState(s, "word:delimiter:length")
    IN IF Len(s1.morseSentence) = 0 THEN s1
       ELSE addCharacter(IF lastCharacter = characterDelimiter
                         THEN removeLastLetterFromMorse(s1)
                         ELSE s1,
                         wordDelimiter)

\* wordGap that keeps a trailing character delimiter.
wordGap_keepsCharacterDelimiter(s) ==
    LET lastCharacter == lastCharacterOf(s)
        s1 == changeAudioState(s, "word:delimiter:length")
    IN IF Len(s1.morseSentence) = 0 THEN s1
       ELSE IF lastCharacter = wordDelimiter THEN s1
       ELSE addCharacter(s1, wordDelimiter)

\* logEndTime, silence longer than wordTime.
wordGap(s) ==
    LET lastCharacter == lastCharacterOf(s)
        s1 == changeAudioState(s, "word:delimiter:length")
    IN IF Len(s1.morseSentence) = 0 THEN s1
       ELSE IF lastCharacter = wordDelimiter THEN s1
       ELSE addCharacter(IF lastCharacter = characterDelimiter
                         THEN removeLastLetterFromMorse(s1)
                         ELSE s1,
                         wordDelimiter)

\* characterGap without the test for a trailing delimiter.
characterGap_noDelimiterTest(s) ==
    LET s1 == changeAudioState(s, "character:delimiter:length")
    IN IF Len(s1.morseSentence) = 0 THEN s1
       ELSE addCharacter(s1, characterDelimiter)

\* logEndTime, silence longer than characterTime.
characterGap(s) ==
    LET lastCharacter == lastCharacterOf(s)
        s1 == changeAudioState(s, "character:delimiter:length")
    IN IF Len(s1.morseSentence) = 0 THEN s1
       ELSE IF isDelimiter(lastCharacter) THEN s1
       ELSE addCharacter(s1, characterDelimiter)

\* soundEnd with the two comparisons made inclusive.
soundEnd_inclusive(s, currentTime) ==
    LET s1 == [s EXCEPT !.soundStopTime = currentTime, !.lastState = "no-sound"]
        onTime == currentTime - s1.soundStartTime
    IN IF onTime >= dashTime THEN addCharacter(s1, "-")
       ELSE IF onTime >= dotTime THEN addCharacter(s1, ".")
       ELSE s1

\* logEndTime, the sample that ends a tone.
soundEnd(s, currentTime) ==
    LET s1 == [s EXCEPT !.soundStopTime = currentTime, !.lastState = "no-sound"]
        onTime == currentTime - s1.soundStartTime
    IN IF onTime > dashTime THEN addCharacter(s1, "-")
       ELSE IF onTime > dotTime THEN addCharacter(s1, ".")
       ELSE s1

\* logEndTime without its debounce test.
logEndTime_noDebounce(s, currentTime) ==
    LET offTime == currentTime - s.soundStopTime
    IN IF wasNoSound(s) /\ offTime > wordTime THEN wordGap(s)
       ELSE IF wasNoSound(s) /\ offTime > characterTime THEN characterGap(s)
       ELSE IF wasNoSound(s) THEN changeAudioState(s, "listening:no-sound")
       ELSE IF wasSound(s) THEN soundEnd(s, currentTime)
       ELSE s

\* logEndTime testing the character gap before the word gap.
logEndTime_characterGapFirst(s, currentTime) ==
    IF currentTime - s.soundStartTime < debounceTime
    THEN s
    ELSE LET offTime == currentTime - s.soundStopTime
         IN IF wasNoSound(s) /\ offTime > characterTime THEN characterGap(s)
            ELSE IF wasNoSound(s) /\ offTime > wordTime THEN wordGap(s)
            ELSE IF wasNoSound(s) THEN changeAudioState(s, "listening:no-sound")
            ELSE IF wasSound(s) THEN soundEnd(s, currentTime)
            ELSE s

\* logEndTime with the two gap comparisons made inclusive.
logEndTime_inclusiveGaps(s, currentTime) ==
    IF currentTime - s.soundStartTime < debounceTime
    THEN s
    ELSE LET offTime == currentTime - s.soundStopTime
         IN IF wasNoSound(s) /\ offTime >= wordTime THEN wordGap(s)
            ELSE IF wasNoSound(s) /\ offTime >= characterTime THEN characterGap(s)
            ELSE IF wasNoSound(s) THEN changeAudioState(s, "listening:no-sound")
            ELSE IF wasSound(s) THEN soundEnd(s, currentTime)
            ELSE s

logEndTime(s, currentTime) ==
    IF currentTime - s.soundStartTime < debounceTime
    THEN s
    ELSE LET offTime == currentTime - s.soundStopTime
         IN IF wasNoSound(s) /\ offTime > wordTime THEN wordGap(s)
            ELSE IF wasNoSound(s) /\ offTime > characterTime THEN characterGap(s)
            ELSE IF wasNoSound(s) THEN changeAudioState(s, "listening:no-sound")
            ELSE IF wasSound(s) THEN soundEnd(s, currentTime)
            ELSE s

(***************************************************************************)
(* What a registered on:change handler has been given last.                *)
(***************************************************************************)
RECURSIVE lastChangeArg(_, _)
lastChangeArg(events, before) ==
    IF Len(events) = 0 THEN before
    ELSE IF Last(events).name = "on:change" THEN Last(events).args[1]
    ELSE lastChangeArg(Front(events), before)

\* Store the fields an operation leaves behind.
Commit(s, operation) ==
    /\ currentAudioState' = s.currentAudioState
    /\ lastState' = s.lastState
    /\ soundStartTime' = s.soundStartTime
    /\ soundStopTime' = s.soundStopTime
    /\ morseSentence' = s.morseSentence
    /\ fired' = s.fired
    /\ changeArg' = lastChangeArg(s.fired, changeArg)
    /\ op' = operation

\* The field initialisers.
Fresh ==
    /\ listenInterval = 0
    /\ microphoneSource = 0
    /\ opening = {}
    /\ intervals = {}
    /\ live = {}
    /\ stopped = FALSE
    /\ currentAudioState = "not-listening"
    /\ lastState = "no-sound"
    /\ soundStartTime = 0
    /\ soundStopTime = 0
    /\ morseSentence = <<>>
    /\ now = 0
    /\ op = [name |-> "constructor"]
    /\ fired = NoEvents
    /\ changeArg = <<>>
    /\ toneFirst = -1

\* new MicToMorseCode(threshold, audioTimeResolution, dotTime, ...).
Init ==
    /\ Fresh
    /\ threshold \in Thresholds
    /\ audioTimeResolution \in Resolutions
    /\ dotTime \in DotTimes
    /\ dashTime \in DashTimes
    /\ characterTime \in CharacterTimes
    /\ wordTime \in WordTimes
    /\ debounceTime \in DebounceTimes

\* new MicToMorseCode(): the defaults, in ticks of 0.05 s (dotTime 0.5,
\* dashTime 1.5, characterTime 2.0, wordTime 3.0, debounceTime 0.25).
InitDefault ==
    /\ Fresh
    /\ threshold \in Thresholds
    /\ audioTimeResolution \in Resolutions
    /\ dotTime = DefaultDotTime
    /\ dashTime = DefaultDotTime * 3
    /\ characterTime = DefaultDotTime * 4
    /\ wordTime = DefaultDotTime * 6
    /\ debounceTime = DefaultDotTime \div 2

\* startMicrophone(): a new meter and source (numbered k), open() is pending.
startMicrophone(k) ==
    /\ microphoneSource' = k
    /\ opening' = opening \cup {k}
    /\ stopped' = FALSE
    /\ Commit(This, [name |-> "startMicrophone"])
    /\ UNCHANGED <<listenInterval, intervals, live, config, now, toneFirst>>

\* The then-callback of open(): source k is open, its meter is sampled.
opened(k) ==
    /\ k \in opening
    /\ opening' = opening \ {k}
    /\ listenInterval' = k
    /\ intervals' = intervals \cup {k}
    /\ live' = live \cup {k}
    /\ Commit(changeAudioState(This, "listening:no-sound"), [name |-> "opened"])
    /\ UNCHANGED <<microphoneSource, stopped, config, now, toneFirst>>

\* The catch-callback of open(): the error is logged.
openFailed(k) ==
    /\ k \in opening
    /\ opening' = opening \ {k}
    /\ Commit(This, [name |-> "openFailed"])
    /\ UNCHANGED <<listenInterval, microphoneSource, intervals, live, stopped,
                   config, now, toneFirst>>

\* stopMicrophone(): the interval and the source the fields name are cleared
\* and closed; the fields keep their values.
stopMicrophone ==
    /\ intervals' = intervals \ {listenInterval}
    /\ live' = live \ {microphoneSource}
    /\ stopped' = TRUE
    /\ Commit(changeAudioState(This, "not-listening"), [name |-> "stopMicrophone"])
    /\ UNCHANGED <<listenInterval, microphoneSource, opening, config, now, toneFirst>>

\* meter.getValue() of the meter of source k.
heard(k) == IF k \in live THEN Levels ELSE {MinusInfinity}

\* One tick of interval k: the callback onMicTime(meter) returns.
onMicTime(k, currentTime, value) ==
    /\ k \in intervals
    /\ value \in heard(k)
    /\ now' = currentTime
    /\ LET present == value > threshold
       IN /\ Commit(IF present THEN logStartTime(This, currentTime)
                               ELSE logEndTime(This, currentTime),
                    [name |-> "onMicTime", time |-> currentTime, present |-> present])
          /\ toneFirst' = IF ~present THEN -1
                          ELSE IF toneFirst = -1 THEN currentTime
                          ELSE toneFirst
    /\ UNCHANGED <<mic, config>>

\* clearSentence reading `previous` after the assignment.
clearSentence_previousRead ==
    /\ LET s1 == [This EXCEPT !.morseSentence = <<>>]
           previous == s1.morseSentence
       IN Commit(emitSentenceChangeEvent(s1, s1.morseSentence, previous),
                 [name |-> "clearSentence"])
    /\ UNCHANGED <<mic, config, now, toneFirst>>

clearSentence ==
    /\ LET previous == morseSentence
           s1 == [This EXCEPT !.morseSentence = <<>>]
       IN Commit(emitSentenceChangeEvent(s1, s1.morseSentence, previous),
                 [name |-> "clearSentence"])
    /\ UNCHANGED <<mic, config, now, toneFirst>>

\* split(...).pop() works on a fresh array; this.morseSentence is not assigned.
deleteCharacter ==
    /\ LET previous == morseSentence
           popped == Front(split(morseSentence, characterDelimiter))
           s1 == This
       IN Commit(emitSentenceChangeEvent(s1, s1.morseSentence, previous),
                 [name |-> "deleteCharacter"])
    /\ UNCHANGED <<mic, config, now, toneFirst>>

deleteWord ==
    /\ LET previous == morseSentence
           popped == Front(split(morseSentence, wordDelimiter))
           s1 == This
       IN Commit(emitSentenceChangeEvent(s1, s1.morseSentence, previous),
                 [name |-> "deleteWord"])
    /\ UNCHANGED <<mic, config, now, toneFirst>>


setThreshold(value) ==
    /\ threshold' = value
    /\ UNCHANGED <<audioTimeResolution, dotTime, dashTime, characterTime, wordTime, debounceTime>>
    /\ Commit(This, [name |-> "setThreshold", value |-> value])
    /\ UNCHANGED <<mic, now, toneFirst>>

setDotTime(value) ==
    /\ dotTime' = value
    /\ UNCHANGED <<threshold, audioTimeResolution, dashTime, characterTime, wordTime, debounceTime>>
    /\ Commit(This, [name |-> "setDotTime", value |-> value])
    /\ UNCHANGED <<mic, now, toneFirst>>

setDashTime(value) ==
    /\ dashTime' = value
    /\ UNCHANGED <<threshold, audioTimeResolution, dotTime, characterTime, wordTime, debounceTime>>
    /\ Commit(This, [name |-> "setDashTime", value |-> value])
    /\ UNCHANGED <<mic, now, toneFirst>>

\* setCharacterTime assigning the neighbouring field.
setCharacterTime_wordTime(value) ==
    /\ wordTime' = value
    /\ UNCHANGED <<threshold, audioTimeResolution, dotTime, dashTime, characterTime, debounceTime>>
    /\ Commit(This, [name |-> "setCharacterTime", value |-> value])
    /\ UNCHANGED <<mic, now, toneFirst>>

setCharacterTime(value) ==
    /\ characterTime' = value
    /\ UNCHANGED <<threshold, audioTimeResolution, dotTime, dashTime, wordTime, debounceTime>>
    /\ Commit(This, [name |-> "setCharacterTime", value |-> value])
    /\ UNCHANGED <<mic, now, toneFirst>>

setWordTime(value) ==
    /\ wordTime' = value
    /\ UNCHANGED <<threshold, audioTimeResolution, dotTime, dashTime, characterTime, debounceTime>>
    /\ Commit(This, [name |-> "setWordTime", value |-> value])
    /\ UNCHANGED <<mic, now, toneFirst>>

setDebounceTime(value) ==
    /\ debounceTime' = value
    /\ UNCHANGED <<threshold, audioTimeResolution, dotTime, dashTime, characterTime, wordTime>>
    /\ Commit(This, [name |-> "setDebounceTime", value |-> value])
    /\ UNCHANGED <<mic, now, toneFirst>>

setAudioTimeResolution(value) ==
    /\ audioTimeResolution' = value
    /\ UNCHANGED <<threshold, dotTime, dashTime, characterTime, wordTime, debounceTime>>
    /\ Commit(This, [name |-> "setAudioTimeResolution", value |-> value])
    /\ UNCHANGED <<mic, now, toneFirst>>

\* This specification follows one listening session: startMicrophone() is
\* called once and the microphone is not stopped.
Next ==
    \/ microphoneSource = 0 /\ startMicrophone(1)
    \/ \E k \in opening : opened(k)
    \/ \E k \in opening : openFailed(k)
    \/ \E k \in intervals, currentTime \in now..MaxTime :
           \E value \in heard(k) : onMicTime(k, currentTime, value)
    \/ clearSentence
    \/ deleteCharacter
    \/ deleteWord
    \/ \E value \in Thresholds : setThreshold(value)
    \/ \E value \in DotTimes : setDotTime(value)
    \/ \E value \in DashTimes : setDashTime(value)
    \/ \E value \in CharacterTimes : setCharacterTime(value)
    \/ \E value \in WordTimes : setWordTime(value)
    \/ \E value \in DebounceTimes : setDebounceTime(value)
    \/ \E value \in Resolutions : setAudioTimeResolution(value)

Spec == Init /\ [][Next]_vars

(***************************************************************************)
(* The setters at work: every parameter is set to values other than the    *)
(* constructor's, between the samples of a short session.                  *)
(***************************************************************************)
MaxSetterTime == 4

SetThresholds == {-50, -70}
SetResolutions == {50, 100}
SetDotTimes == {0, 1}
SetDashTimes == {2, 3}
SetCharacterTimes == {2, 3}
SetWordTimes == {3, 4}
SetDebounceTimes == {1, 2}

NextSetters ==
    \/ microphoneSource = 0 /\ startMicrophone(1)
    \/ \E k \in opening : opened(k)
    \/ \E k \in intervals, currentTime \in now..MaxSetterTime :
           \E value \in heard(k) : onMicTime(k, currentTime, value)
    \/ \E value \in SetThresholds : setThreshold(value)
    \/ \E value \in SetDotTimes : setDotTime(value)
    \/ \E value \in SetDashTimes : setDashTime(value)
    \/ \E value \in SetCharacterTimes : setCharacterTime(value)
    \/ \E value \in SetWordTimes : setWordTime(value)
    \/ \E value \in SetDebounceTimes : setDebounceTime(value)
    \/ \E value \in SetResolutions : setAudioTimeResolution(value)

SpecSetters == Init /\ [][NextSetters]_vars

(***************************************************************************)
(* Samples whose timestamps come in any order: onMicTime itself compares   *)
(* no timestamp with the one before.                                       *)
(***************************************************************************)
MaxOrderTime == 5

NextAnyOrder ==
    \/ microphoneSource = 0 /\ startMicrophone(1)
    \/ \E k \in opening : opened(k)
    \/ \E k \in intervals, currentTime \in 0..MaxOrderTime :
           \E value \in heard(k) : onMicTime(k, currentTime, value)

SpecAnyOrder == Init /\ [][NextAnyOrder]_vars

(***************************************************************************)
(* Starting and stopping: startMicrophone() up to MaxStarts times,         *)
(* stopMicrophone() at any moment, the open() promises settling in any     *)
(* order.                                                                  *)
(***************************************************************************)
MaxStarts == 2
MaxMicTime == 3

NextMic ==
    \/ microphoneSource < MaxStarts /\ startMicrophone(microphoneSource + 1)
    \/ \E k \in opening : opened(k)
    \/ \E k \in opening : openFailed(k)
    \/ stopMicrophone
    \/ \E k \in intervals, currentTime \in now..MaxMicTime :
           \E value \in heard(k) : onMicTime(k, currentTime, value)

SpecMic == Init /\ [][NextMic]_vars

(***************************************************************************)
(* One listening session with the configuration fixed at construction: no  *)
(* setter is called.  Timestamps are non-decreasing.                       *)
(***************************************************************************)
NextFixed ==
    \/ microphoneSource = 0 /\ startMicrophone(1)
    \/ \E k \in opening : opened(k)
    \/ \E k \in opening : openFailed(k)
    \/ \E k \in intervals, currentTime \in now..MaxTime :
           \E value \in heard(k) : onMicTime(k, currentTime, value)
    \/ clearSentence
    \/ deleteCharacter
    \/ deleteWord

SpecFixed == Init /\ [][NextFixed]_vars

(***************************************************************************)
(* Tones, then silence for good: samples of any level up to LastTone,      *)
(* after that only silence samples, with strictly increasing timestamps.   *)
(* The interval timer keeps firing, so a sample that can be taken is       *)
(* eventually taken.  Fixed configuration, no edit operation.              *)
(***************************************************************************)
LastTone == MaxTime \div 2

silenceFromNowOn ==
    \E k \in intervals, currentTime \in (now + 1)..MaxTime :
        \E value \in heard(k) :
            /\ currentTime > LastTone
            /\ ~(value > threshold)
            /\ onMicTime(k, currentTime, value)

NextQuiet ==
    \/ microphoneSource = 0 /\ startMicrophone(1)
    \/ \E k \in opening : opened(k)
    \/ \E k \in intervals, currentTime \in now..LastTone :
           \E value \in heard(k) : onMicTime(k, currentTime, value)
    \/ silenceFromNowOn

SpecQuiet == Init /\ [][NextQuiet]_vars /\ WF_vars(silenceFromNowOn)

(***************************************************************************)
(* A tone followed by silence: presence samples with timestamps from 0 up  *)
(* to toneEnd (the first at 0), then silence samples from toneEnd up to    *)
(* end (the first at toneEnd, the last at end), however far apart.         *)
(***************************************************************************)
toneThenSilence(toneEnd, end) ==
    \E k \in intervals, currentTime \in 0..end :
        \E value \in heard(k) :
            LET present == value > threshold
            IN /\ IF op.name # "onMicTime"
                  THEN present /\ currentTime = 0
                  ELSE IF op.present
                  THEN \/ present /\ op.time < currentTime /\ currentTime <= toneEnd
                       \/ ~present /\ currentTime = toneEnd
                  ELSE ~present /\ op.time < currentTime
               /\ onMicTime(k, currentTime, value)

\* The last silence sample of the example has been processed.
heardAll(end) == op.name = "onMicTime" /\ ~op.present /\ op.time = end

\* Tone from 0 to 0.6, silence from 0.6 to 2.5.
DotExample == [toneEnd |-> 12, end |-> 50]
\* Tone from 0 to 2.0, silence from 2.0 to 5.0.
DashExample == [toneEnd |-> 40, end |-> 100]

NextDotExample ==
    \/ microphoneSource = 0 /\ startMicrophone(1)
    \/ \E k \in opening : opened(k)
    \/ toneThenSilence(DotExample.toneEnd, DotExample.end)

SpecDotExample == InitDefault /\ [][NextDotExample]_vars

NextDashExample ==
    \/ microphoneSource = 0 /\ startMicrophone(1)
    \/ \E k \in opening : opened(k)
    \/ toneThenSilence(DashExample.toneEnd, DashExample.end)

SpecDashExample == InitDefault /\ [][NextDashExample]_vars

(***************************************************************************)
(* Vocabulary of the properties.                                           *)
(***************************************************************************)
Symbols == {".", "-"}

\* The calls of one event slot among the calls an operation made.
RECURSIVE callsOf(_, _)
callsOf(events, name) ==
    IF Len(events) = 0 THEN <<>>
    ELSE LET rest == callsOf(Front(events), name)
         IN IF Last(events).name = name THEN Append(rest, Last(events)) ELSE rest

\* The last operation reported a change that appended `character`.
appended(character) ==
    \E i \in 1..Len(fired) :
        /\ fired[i].name = "on:change"
        /\ fired[i].args[1] = Append(fired[i].args[2], character)

\* The sentence as that report saw it before the append.
beforeAppend(character) ==
    LET i == CHOOSE k \in 1..Len(fired) :
                 /\ fired[k].name = "on:change"
                 /\ fired[k].args[1] = Append(fired[k].args[2], character)
    IN fired[i].args[2]

\* The dots and dashes a sentence ends with.
RECURSIVE trailingSymbols(_)
trailingSymbols(str) ==
    IF Len(str) = 0 \/ Last(str) \notin Symbols THEN <<>>
    ELSE Append(trailingSymbols(Front(str)), Last(str))

\* Array.prototype.join.
RECURSIVE join(_, _)
join(parts, separator) ==
    IF Len(parts) = 0 THEN <<>>
    ELSE IF Len(parts) = 1 THEN parts[1]
    ELSE join(Front(parts), separator) \o <<separator>> \o Last(parts)

\* A sentence without its trailing segment and that segment's separator.
withoutLastSegment(str, separator) ==
    join(Front(split(str, separator)), separator)

silenceSample == op.name = "onMicTime" /\ ~op.present
presenceSample == op.name = "onMicTime" /\ op.present

\* What a tone of length d must append under dotTime and dashTime.
toneAppends(d, before, after) ==
    /\ (dotTime < d /\ d <= dashTime) => after = Append(before, ".")
    /\ d > dashTime => after = Append(before, "-")
    /\ d <= dotTime => after = before

(***************************************************************************)
(* C1 as stated: for every tone, with d the time from the tone's first     *)
(* presence sample to the first silence sample after it, exactly one "."   *)
(* is appended if dotTime < d <= dashTime, exactly one "-" if              *)
(* d > dashTime, nothing if d <= dotTime (configuration with               *)
(* dashTime > dotTime).                                                    *)
(***************************************************************************)
C1_ToneFromFirstPresenceSample ==
    [][(op'.name = "onMicTime" /\ ~op'.present /\ toneFirst # -1
            /\ dotTime < dashTime)
        => toneAppends(op'.time - toneFirst, morseSentence, morseSentence')]_vars

(***************************************************************************)
(* C1: for every tone, with d the time from the presence sample that set   *)
(* ListeningState to Sound (soundStartTime) to the silence sample that     *)
(* ends it (the first one at least debounceTime after soundStartTime),     *)
(* exactly one "." is appended if dotTime < d <= dashTime, exactly one "-" *)
(* if d > dashTime, nothing if d <= dotTime (configuration with            *)
(* dashTime > dotTime).                                                    *)
(***************************************************************************)
C1_ToneFromSoundStart ==
    [][(op'.name = "onMicTime" /\ ~op'.present /\ lastState = "sound"
            /\ op'.time - soundStartTime >= debounceTime
            /\ dotTime < dashTime)
        => /\ lastState' = "no-sound"
           /\ toneAppends(op'.time - soundStartTime, morseSentence, morseSentence')]_vars

\* A tone has just ended and appended a dot.
C1_Witness ==
    /\ silenceSample
    /\ soundStopTime = op.time
    /\ dotTime < dashTime
    /\ appended(".")
    /\ op.time - soundStartTime > dotTime
    /\ op.time - soundStartTime <= dashTime

(***************************************************************************)
(* C2: whenever a character delimiter is appended to the sentence, exactly *)
(* one character-end event fires and its argument is the dot/dash sequence *)
(* of the character that just ended.                                       *)
(***************************************************************************)
C2_CharacterEndCarriesCharacter ==
    appended(characterDelimiter) =>
        LET ends == callsOf(fired, "on:character:end")
        IN /\ Len(ends) = 1
           /\ ends[1].args[1] = trailingSymbols(beforeAppend(characterDelimiter))

(***************************************************************************)
(* C3: whenever a word delimiter is appended to the sentence, exactly one  *)
(* word-end event fires and its argument is the word that just ended, the  *)
(* segment immediately before the appended word delimiter.                 *)
(***************************************************************************)
C3_WordEndCarriesWord ==
    appended(wordDelimiter) =>
        LET ends == callsOf(fired, "on:word:end")
            words == split(beforeAppend(wordDelimiter), wordDelimiter)
        IN /\ Len(ends) = 1
           /\ ends[1].args[1] = words[Len(words)]

(***************************************************************************)
(* C4: deleteCharacter() leaves the sentence without its trailing          *)
(* character-delimited segment and that segment's delimiter; on the empty  *)
(* sentence it leaves the sentence empty.                                  *)
(***************************************************************************)
C4_DeleteCharacterRemovesSegment ==
    [][op'.name = "deleteCharacter"
        => morseSentence' = withoutLastSegment(morseSentence, characterDelimiter)]_vars

(***************************************************************************)
(* C5: deleteWord() removes the trailing word-delimited segment and its    *)
(* word delimiter and fires one sentence-changed event whose current value *)
(* is the shortened sentence.                                              *)
(***************************************************************************)
C5_DeleteWordRemovesSegment ==
    [][op'.name = "deleteWord"
        => /\ morseSentence' = withoutLastSegment(morseSentence, wordDelimiter)
           /\ fired' = <<[name |-> "on:change",
                          args |-> <<withoutLastSegment(morseSentence, wordDelimiter),
                                     morseSentence>>]>>]_vars

(***************************************************************************)
(* C6: a "." or "-" is appended only in the step that processes a silence  *)
(* sample and moves ListeningState from Sound to NoSound; no presence      *)
(* sample, and no sample processed while ListeningState remains Sound,     *)
(* changes the sentence.                                                   *)
(***************************************************************************)
C6_SymbolsOnlyWhenToneEnds ==
    [][op'.name = "onMicTime"
        => /\ op'.present => morseSentence' = morseSentence
           /\ (lastState = "sound" /\ lastState' = "sound")
                  => morseSentence' = morseSentence
           /\ (\E symbol \in Symbols : morseSentence' = Append(morseSentence, symbol))
                  => /\ ~op'.present
                     /\ lastState = "sound"
                     /\ lastState' = "no-sound"]_vars

\* A presence sample has been processed during a tone already as long as a
\* dash, with a sentence to corrupt.
C6_Witness ==
    /\ presenceSample
    /\ lastState = "sound"
    /\ op.time - soundStartTime > dashTime
    /\ currentAudioState = "dash:length"
    /\ Len(morseSentence) > 0

(***************************************************************************)
(* C7: in every reachable state the sentence has no two adjacent word      *)
(* delimiters; silence samples after the one that appended a word          *)
(* delimiter append nothing more.                                          *)
(***************************************************************************)
C7_NoAdjacentWordDelimiters ==
    \A i \in 1..(Len(morseSentence) - 1) :
        ~(morseSentence[i] = wordDelimiter /\ morseSentence[i + 1] = wordDelimiter)

\* A further silence sample past wordTime met a sentence that already ends
\* with the word delimiter.
C7_Witness ==
    /\ silenceSample
    /\ lastState = "no-sound"
    /\ op.time - soundStopTime > wordTime
    /\ op.time - soundStartTime >= debounceTime
    /\ Len(morseSentence) > 0
    /\ Last(morseSentence) = wordDelimiter
    /\ ~appended(wordDelimiter)

(***************************************************************************)
(* C8: when a silence sample past wordTime is processed and the sentence   *)
(* ends with the character delimiter, that delimiter is replaced: the      *)
(* sentence then ends with exactly one delimiter, the word delimiter, and  *)
(* the symbol before it is a dot or dash.                                  *)
(***************************************************************************)
C8_CharacterDelimiterUpgraded ==
    [][(/\ op'.name = "onMicTime" /\ ~op'.present
        /\ lastState = "no-sound"
        /\ op'.time - soundStartTime >= debounceTime
        /\ op'.time - soundStopTime > wordTime
        /\ Len(morseSentence) > 0
        /\ Last(morseSentence) = characterDelimiter)
        => /\ morseSentence' = Append(Front(morseSentence), wordDelimiter)
           /\ Len(morseSentence') >= 2
           /\ morseSentence'[Len(morseSentence') - 1] \in Symbols]_vars

\* The gap went from character length to word length in this sample, and the
\* word delimiter was appended.
C8_Witness ==
    /\ silenceSample
    /\ appended(wordDelimiter)
    /\ \E i \in 1..Len(fired) :
           /\ fired[i].name = "on:audio:state:change"
           /\ fired[i].args = <<"word:delimiter:length", "character:delimiter:length">>
    /\ Len(morseSentence) >= 3

(***************************************************************************)
(* C9: clearSentence() leaves the sentence empty and fires exactly one     *)
(* sentence-changed event, with current "" and previous the sentence       *)
(* before the call; ListeningState, AudioState and both timestamps are     *)
(* unchanged.                                                              *)
(***************************************************************************)
C9_ClearSentence ==
    [][op'.name = "clearSentence"
        => /\ morseSentence' = <<>>
           /\ fired' = <<[name |-> "on:change", args |-> <<<<>>, morseSentence>>]>>
           /\ UNCHANGED <<lastState, currentAudioState, soundStartTime, soundStopTime>>]_vars

\* A sentence of two symbols or more was cleared in the middle of a tone.
C9_Witness ==
    /\ op.name = "clearSentence"
    /\ Len(fired) = 1
    /\ Len(fired[1].args[2]) >= 2
    /\ lastState = "sound"
    /\ morseSentence = <<>>

(***************************************************************************)
(* C10: with an on:change handler registered from the start, after every   *)
(* sample and every public operation the value last passed to the handler  *)
(* as its first argument equals the sentence ("" if it was never called).  *)
(***************************************************************************)
C10_HandlerKnowsSentence ==
    changeArg = morseSentence

\* The handler was told of a sentence in which a character delimiter was
\* replaced by the word delimiter and a further symbol followed.
C10_Witness ==
    /\ silenceSample
    /\ appended(characterDelimiter)
    /\ \E i \in 1..Len(morseSentence) : morseSentence[i] = wordDelimiter
    /\ changeArg = morseSentence

(***************************************************************************)
(* C11 as stated: with the default configuration, presence samples from 0  *)
(* up to 0.6 followed by silence samples from 0.6 up to 2.5 leave the      *)
(* sentence equal to ". ".                                                 *)
(***************************************************************************)
C11_ExampleLeavesDotDelimiter ==
    heardAll(DotExample.end) => morseSentence = <<".", characterDelimiter>>

(***************************************************************************)
(* C11: with the default configuration, presence samples from 0 up to 0.6  *)
(* followed by silence samples from 0.6 up to 2.5 leave no delimiter in    *)
(* the sentence: it holds at most one symbol, and it is empty whenever a   *)
(* presence sample has a timestamp from 0.25 to 0.35 (the tone is then     *)
(* timed from that sample and is no longer than dotTime).                  *)
(***************************************************************************)
C11_ExampleLeavesNoDelimiter ==
    heardAll(DotExample.end) =>
        /\ Len(morseSentence) <= 1
        /\ \A i \in 1..Len(morseSentence) : morseSentence[i] \in Symbols
        /\ soundStartTime <= 7 => morseSentence = <<>>

\* The example has run with a presence sample at 0.25: the tone was timed
\* from 0.25 to 0.6.
C11_Witness ==
    /\ heardAll(DotExample.end)
    /\ soundStartTime = 5
    /\ soundStopTime = DotExample.toneEnd
    /\ lastState = "no-sound"
    /\ morseSentence = <<>>

(***************************************************************************)
(* C12 as stated: with the default configuration, presence samples from 0  *)
(* up to 2.0 followed by silence samples from 2.0 up to 5.0 leave the      *)
(* sentence equal to "-/".                                                 *)
(***************************************************************************)
C12_ExampleLeavesDashWord ==
    heardAll(DashExample.end) => morseSentence = <<"-", wordDelimiter>>

(***************************************************************************)
(* C12: with the default configuration, presence samples from 0 up to 2.0  *)
(* followed by silence samples from 2.0 up to 5.0 leave no word delimiter  *)
(* in the sentence; the sentence is "- " (one dash followed by one         *)
(* character delimiter) whenever a presence sample has a timestamp from    *)
(* 0.25 to 0.45.                                                           *)
(***************************************************************************)
C12_ExampleLeavesDashCharacter ==
    heardAll(DashExample.end) =>
        /\ \A i \in 1..Len(morseSentence) : morseSentence[i] # wordDelimiter
        /\ (5 <= soundStartTime /\ soundStartTime <= 9)
               => morseSentence = <<"-", characterDelimiter>>

\* The example has run with a presence sample at 0.25: a dash, and a gap of
\* exactly wordTime at the last sample.
C12_Witness ==
    /\ heardAll(DashExample.end)
    /\ soundStartTime = 5
    /\ soundStopTime = DashExample.toneEnd
    /\ op.time - soundStopTime = wordTime
    /\ morseSentence = <<"-", characterDelimiter>>

(***************************************************************************)
(* C13: each configuration setter changes only its own parameter: the      *)
(* sentence, ListeningState, AudioState, soundStartTime, soundStopTime and *)
(* the other parameters are unchanged and no event fires.                  *)
(***************************************************************************)
Setters ==
    {"setThreshold", "setDotTime", "setDashTime", "setCharacterTime",
     "setWordTime", "setDebounceTime", "setAudioTimeResolution"}

\* The parameters as a record, by the name of their setter.
parameters ==
    [setThreshold |-> threshold, setDotTime |-> dotTime, setDashTime |-> dashTime,
     setCharacterTime |-> characterTime, setWordTime |-> wordTime,
     setDebounceTime |-> debounceTime, setAudioTimeResolution |-> audioTimeResolution]

C15_DebouncedSampleChangesNothing ==
    [][(/\ op'.name = "onMicTime"
        /\ \/ op'.present /\ op'.time - soundStopTime < debounceTime
           \/ ~op'.present /\ op'.time - soundStartTime < debounceTime)
        => /\ fired' = <<>>
           /\ UNCHANGED <<morseSentence, lastState, currentAudioState,
                          soundStartTime, soundStopTime>>]_vars

\* A presence sample arrived within debounceTime of the end of a tone that
\* had appended a symbol, and later than debounceTime after its start.
C15_Witness ==
    /\ presenceSample
    /\ lastState = "no-sound"
    /\ op.time - soundStopTime < debounceTime
    /\ op.time - soundStartTime >= debounceTime
    /\ fired = <<>>
    /\ Len(morseSentence) > 0
    /\ Last(morseSentence) \in Symbols

(***************************************************************************)
(* C16: in every state reachable by samples, clearSentence,                *)
(* deleteCharacter and deleteWord, every delimiter in the sentence is      *)
(* immediately preceded by a "." or "-": the sentence never starts with a  *)
(* delimiter and never holds two adjacent delimiters.                      *)
(***************************************************************************)
C16_DelimitersFollowSymbols ==
    \A i \in 1..Len(morseSentence) :
        isDelimiter(morseSentence[i])
            => i > 1 /\ morseSentence[i - 1] \in Symbols

\* A silence sample in the character-gap range met a sentence that ends with
\* the word delimiter.
C16_Witness ==
    /\ silenceSample
    /\ lastState = "no-sound"
    /\ op.time - soundStopTime > characterTime
    /\ op.time - soundStopTime <= wordTime
    /\ Len(morseSentence) > 0
    /\ Last(morseSentence) = wordDelimiter
    /\ fired = <<>>

(***************************************************************************)
(* C17: once stopMicrophone() has been called, and until startMicrophone() *)
(* is called again, no sample changes the sentence, ListeningState or the  *)
(* timestamps, and AudioState stays "not-listening".                       *)
(***************************************************************************)
C17_StoppedStaysStopped ==
    [][(stopped /\ stopped')
        => /\ currentAudioState' = "not-listening"
           /\ op'.name = "onMicTime"
                 => UNCHANGED <<morseSentence, lastState, soundStartTime, soundStopTime>>]_vars

(***************************************************************************)
(* C18: the previous argument of each sentence-changed event equals the    *)
(* current argument of the sentence-changed event before it (the empty     *)
(* string for the first event), also when a trailing character delimiter   *)
(* is replaced by a word delimiter.                                        *)
(***************************************************************************)
C18_ChangeEventsChain ==
    [][LET changes == callsOf(fired', "on:change")
       IN \A i \in 1..Len(changes) :
              changes[i].args[2] = IF i = 1 THEN changeArg
                                   ELSE changes[i - 1].args[1]]_vars

(***************************************************************************)
(* C19: with fixed configuration and no edit operations, if a tone has     *)
(* just appended a "." or "-" and from then on only silence samples arrive *)
(* with strictly increasing timestamps that grow past                      *)
(* soundStopTime + wordTime, then eventually the sentence ends with a      *)
(* word delimiter, and it keeps ending with that single word delimiter.    *)
(***************************************************************************)
endsWithSymbolThenSilence ==
    /\ now > LastTone
    /\ lastState = "no-sound"
    /\ Len(morseSentence) > 0
    /\ Last(morseSentence) \in Symbols
    /\ soundStopTime + wordTime < MaxTime

endsWithOneWordDelimiter ==
    /\ Len(morseSentence) >= 2
    /\ Last(morseSentence) = wordDelimiter
    /\ morseSentence[Len(morseSentence) - 1] \in Symbols

C19_SilenceEndsTheWord ==
    endsWithSymbolThenSilence ~> []endsWithOneWordDelimiter

\* The tone ended after LastTone, and silence alone brought the word
\* delimiter.
C19_Witness ==
    /\ silenceSample
    /\ soundStopTime > LastTone
    /\ op.time - soundStopTime > wordTime
    /\ appended(wordDelimiter)
    /\ endsWithOneWordDelimiter

(***************************************************************************)
(* C20: with fixed configuration and non-decreasing timestamps, in every   *)
(* reachable state: when lastState is "sound",                             *)
(* soundStartTime - soundStopTime >= debounceTime; when lastState is       *)
(* "no-sound" and at least one tone has ended,                             *)
(* soundStopTime - soundStartTime >= debounceTime.  Both timestamps change *)
(* only in the steps that change lastState.                                *)
(***************************************************************************)
\* soundStopTime leaves 0 only when a tone ends (line 248), and with a
\* positive debounceTime no tone ends at time 0.
aToneHasEnded == soundStopTime > 0

timestampsApart ==
    /\ lastState = "sound" => soundStartTime - soundStopTime >= debounceTime
    /\ lastState = "no-sound" /\ aToneHasEnded
           => soundStopTime - soundStartTime >= debounceTime

timestampsFollowState ==
    (soundStartTime' # soundStartTime \/ soundStopTime' # soundStopTime)
        => lastState' # lastState

C20_TimestampsDebounced ==
    []timestampsApart /\ [][timestampsFollowState]_vars

\* A tone has just ended exactly debounceTime after it began, and an
\* earlier tone had ended before it began.
C20_Witness ==
    /\ silenceSample
    /\ lastState = "no-sound"
    /\ soundStopTime = op.time
    /\ soundStopTime - soundStartTime = debounceTime
    /\ Len(morseSentence) >= 2

====
